---- MODULE Spec2Model ----
(***************************************************************************)
(* Conversion of a finished Move session's effects into a write-set:       *)
(* SessionExt::finish_with_current_timestamp, its resource-group merger    *)
(* split_and_merge_resource_groups, convert_change_set and                 *)
(* WriteOpConverter::convert (aptos-vm/src/move_vm_ext/session.rs), and    *)
(* the range proof natives of framework/src/natives/cryptography/          *)
(* bulletproofs.rs.                                                        *)
(***************************************************************************)
EXTENDS Integers, Sequences, FiniteSets, TLC

\* ------------------------------------------------------------------ bounds
\* Most effects (resource, module, table, aggregator changes and events)
\* one session may produce.
MaxEffects == 2

\* Largest gas balance a native call starts with.
MaxGas == 14

\* ------------------------------------------------------------ Option<T>
None == <<>>
Some(x) == <<x>>
IsSome(o) == o # <<>>
Unwrap(o) == o[1]

\* ------------------------------------------------------------- universe
CORE_CODE_ADDRESS == "0x1"
Owner == "0xA"
Payer == "0xB"
TimestampTag == "CurrentTimeMicroseconds"
GroupTag == "G"
MemberOrder == <<"R2", "R3">>
MemberTags == {MemberOrder[i] : i \in 1..Len(MemberOrder)}
Handle == "h"

ResourceSlots == {<<CORE_CODE_ADDRESS, TimestampTag>>, <<Owner, "R1">>,
                  <<Owner, TimestampTag>>}
                    \cup {<<Owner, t>> : t \in MemberTags}
MemberSlots == {<<Owner, t>> : t \in MemberTags}
ModuleSlots == {<<Owner, "M">>}
GroupSlots == {<<Owner, GroupTag>>}
TableSlots == {<<Handle, "k1">>}
AggregatorSlots == {<<Handle, "k1">>, <<Handle, "k2">>}

\* little-endian bytes of n, width w
RECURSIVE LeBytes(_, _)
LeBytes(n, w) == IF w = 0 THEN <<>> ELSE <<n % 256>> \o LeBytes(n \div 256, w - 1)

RECURSIVE LeValue(_)
LeValue(bytes) ==
    IF bytes = <<>> THEN 0 ELSE bytes[1] + 256 * LeValue(Tail(bytes))

\* bcs of CurrentTimeMicroseconds { microseconds: u64 }
TimestampBytes(t) == LeBytes(t, 8)

Payloads == {<<1>>, <<2>>}
TimestampPayloads == {TimestampBytes(7), <<1>>}
PayloadsFor(slot) == IF slot[2] = TimestampTag THEN TimestampPayloads ELSE Payloads

\* MoveStorageOp<Vec<u8>>
New(data) == [op |-> "New", data |-> data]
Modify(data) == [op |-> "Modify", data |-> data]
Delete == [op |-> "Delete", data |-> <<>>]
OpsFor(slot) == {New(d) : d \in PayloadsFor(slot)}
                    \cup {Modify(d) : d \in PayloadsFor(slot)} \cup {Delete}

\* AggregatorChange
AggregatorChanges == {[kind |-> "Write", value |-> 42],
                      [kind |-> "Merge", value |-> 1],
                      [kind |-> "Delete", value |-> 0]}

\* raw event identifiers: a bcs EventKey is a u64 and a 32-byte address
GoodGuid == LeBytes(3, 8) \o LeBytes(10, 32)
BadGuid == <<3>>
RawEvents == {[guid |-> g, ty_tag |-> "E", blob |-> <<1>>] : g \in {GoodGuid, BadGuid}}

\* ------------------------------------------------------------ StateKey
ResourceKey(addr, tag) == <<"resource", addr, tag>>
ModuleKey(addr, name) == <<"module", addr, name>>
ResourceGroupKey(addr, tag) == <<"resource_group", addr, tag>>
TableItemKey(handle, key) == <<"table_item", handle, key>>

AllKeys == {ResourceKey(s[1], s[2]) : s \in ResourceSlots \ MemberSlots}
             \cup {ModuleKey(s[1], s[2]) : s \in ModuleSlots}
             \cup {ResourceGroupKey(s[1], s[2]) : s \in GroupSlots}
             \cup {TableItemKey(s[1], s[2]) : s \in TableSlots \cup AggregatorSlots}

\* ---------------------------------------------- resource group container
\* bcs of BTreeMap<StructTag, Vec<u8>>: entry count, then the entries in
\* ascending key order, each a tag code (the tag's rank in MemberOrder), a
\* length and the bytes.
RECURSIVE SerializeEntries(_, _)
SerializeEntries(container, i) ==
    IF i > Len(MemberOrder) THEN <<>>
    ELSE (IF MemberOrder[i] \in DOMAIN container
          THEN <<i, Len(container[MemberOrder[i]])>> \o container[MemberOrder[i]]
          ELSE <<>>) \o SerializeEntries(container, i + 1)

to_bytes(container) ==
    <<Cardinality(DOMAIN container)>> \o SerializeEntries(container, 1)

EmptyContainer == [t \in {} |-> <<>>]

\* entries left to read, bytes left, last tag code read, container so far
RECURSIVE DeserializeEntries(_, _, _, _)
DeserializeEntries(n, bytes, prev, acc) ==
    IF n = 0 THEN (IF bytes = <<>> THEN Some(acc) ELSE None)
    ELSE IF Len(bytes) < 2 THEN None
    ELSE IF ~(bytes[1] \in 1..Len(MemberOrder)) \/ bytes[1] <= prev THEN None
    ELSE IF Len(bytes) < 2 + bytes[2] THEN None
    ELSE DeserializeEntries(n - 1, SubSeq(bytes, 3 + bytes[2], Len(bytes)), bytes[1],
                            acc @@ (MemberOrder[bytes[1]] :> SubSeq(bytes, 3, 2 + bytes[2])))

from_bytes(bytes) ==
    IF bytes = <<>> THEN None ELSE DeserializeEntries(bytes[1], Tail(bytes), 0, EmptyContainer)

\* bcs::from_bytes::<CurrentTimeMicroseconds>
timestamp_from_bytes(bytes) == IF Len(bytes) = 8 THEN Some(LeValue(bytes)) ELSE None

\* aptos_aggregator::delta_change_set::serialize(&u128)
serialize(value) == LeBytes(value, 16)

\* bcs::from_bytes::<EventKey>
event_key_from_bytes(guid) ==
    IF Len(guid) = 8 + 32
    THEN Some([creation_number |-> LeValue(SubSeq(guid, 1, 8)),
               account_address |-> LeValue(SubSeq(guid, 9, 40))])
    ELSE None

\* ------------------------------------------------------------ state view
\* StateValue: bytes and optional StateValueMetadata
StateValue(data, metadata) == [data |-> data, metadata |-> metadata]
StateValueMetadata(payer, deposit, time) ==
    [payer |-> payer, deposit |-> deposit, creation_time_usecs |-> time]

OldMetadata == StateValueMetadata("0xC", 0, 5)

EmptyStorage == [k \in AllKeys |-> None]

\* every slot written by sessions that attached metadata
StorageWithMetadata ==
    [k \in AllKeys |->
        IF k = ResourceKey(CORE_CODE_ADDRESS, TimestampTag)
            THEN Some(StateValue(TimestampBytes(5), Some(OldMetadata)))
        ELSE IF k = ResourceGroupKey(Owner, GroupTag)
            THEN Some(StateValue(to_bytes(("R2" :> <<1>>) @@ ("R3" :> <<2>>)), Some(OldMetadata)))
        ELSE IF k = TableItemKey(Handle, "k2") THEN None
        ELSE Some(StateValue(<<1>>, Some(OldMetadata)))]

\* a ledger that predates metadata tracking
StorageWithoutMetadata ==
    [k \in AllKeys |->
        IF k = ResourceKey(CORE_CODE_ADDRESS, TimestampTag)
            THEN Some(StateValue(TimestampBytes(5), None))
        ELSE IF k = ResourceGroupKey(Owner, GroupTag)
            THEN Some(StateValue(to_bytes("R2" :> <<1>>), None))
        ELSE Some(StateValue(<<1>>, None))]

\* stored group bytes that do not decode
CorruptStorage ==
    [StorageWithoutMetadata EXCEPT ![ResourceGroupKey(Owner, GroupTag)] =
        Some(StateValue(<<9>>, None))]

\* (storage, keys whose read fails)
Worlds == {<<EmptyStorage, {}>>,
           <<StorageWithMetadata, {}>>,
           <<StorageWithoutMetadata, {}>>,
           <<CorruptStorage, {TableItemKey(Handle, "k1")}>>}

VARIABLES
    storage,                    \* remote: state key -> Option<StateValue>
    faulty,                     \* remote: state keys whose read returns Err
    new_slot_payer,             \* SessionExt.new_slot_payer
    change_set,                 \* inner session: resource and module ops
    table_change_set,           \* NativeTableContext
    aggregator_change_set,      \* NativeAggregatorContext
    events,                     \* inner session: emitted events
    pc,                         \* position in finish_with_current_timestamp
    legacy,                     \* configs.legacy_resource_creation_as_modification()
    change_set_filtered,        \* split_and_merge_resource_groups output
    resource_group_change_set,  \* split_and_merge_resource_groups output
    updated_timestamp,          \* split_and_merge_resource_groups output
    current_time,               \* get_current_timestamp output
    todo,                       \* entries the loops of convert_change_set still visit
    write_set_mut,
    delta_change_set,
    result,                     \* what finish_with_current_timestamp returned
    last,                       \* the loop iteration just executed
    native_call                 \* a call of a range proof native: arguments, gas, position

vars == <<storage, faulty, new_slot_payer, change_set, table_change_set,
          aggregator_change_set, events, pc, legacy, change_set_filtered,
          resource_group_change_set, updated_timestamp, current_time, todo,
          write_set_mut, delta_change_set, result, last, native_call>>

nativeVars == <<native_call>>
remoteVars == <<storage, faulty>>
sessionVars == <<new_slot_payer, change_set, table_change_set, aggregator_change_set, events>>
mergeVars == <<legacy, change_set_filtered, resource_group_change_set, updated_timestamp,
               current_time>>

EmptyMap == [s \in {} |-> None]
EmptyChangeSet == [resources |-> EmptyMap, modules |-> EmptyMap]

\* remote.get_state_value
get_state_value(state_key) ==
    IF state_key \in faulty THEN [ok |-> FALSE, value |-> None]
    ELSE [ok |-> TRUE, value |-> storage[state_key]]

\* remote.get_resource_group: the group a struct tag is a member of
get_resource_group(struct_tag) ==
    IF struct_tag \in MemberTags THEN Some(GroupTag) ELSE None

\* remote.get_resource_group_data
get_resource_group_data(addr, resource_tag) ==
    LET read == get_state_value(ResourceGroupKey(addr, resource_tag))
    IN  [ok |-> read.ok,
         value |-> IF read.ok /\ IsSome(read.value)
                   THEN Some(Unwrap(read.value).data) ELSE None]

\* CurrentTimeMicroseconds::fetch_config(remote)
fetch_config ==
    LET read == get_state_value(ResourceKey(CORE_CODE_ADDRESS, TimestampTag))
    IN  IF read.ok /\ IsSome(read.value)
        THEN timestamp_from_bytes(Unwrap(read.value).data)
        ELSE None

\* ------------------------------------------------ resource group merger
\* the ops of one account's resources that belong to resource_tag, by member
MemberOps(resources, addr, resource_tag) ==
    [t \in {m \in MemberTags : <<addr, m>> \in DOMAIN resources
                               /\ get_resource_group(m) = Some(resource_tag)}
        |-> resources[<<addr, t>>]]
\* the loop over resources.into_resources() with a Modify arm that does not
\* store the new bytes
RECURSIVE ApplyMemberOps_modify_lost(_, _, _)
ApplyMemberOps_modify_lost(source_data, ops, i) ==
    IF i > Len(MemberOrder) THEN Some(source_data)
    ELSE LET struct_tag == MemberOrder[i]
         IN  IF struct_tag \notin DOMAIN ops
                 THEN ApplyMemberOps_modify_lost(source_data, ops, i + 1)
             ELSE IF ops[struct_tag].op = "Delete" THEN
                 IF struct_tag \notin DOMAIN source_data THEN None
                 ELSE ApplyMemberOps_modify_lost(
                        [t \in DOMAIN source_data \ {struct_tag} |-> source_data[t]], ops, i + 1)
             ELSE IF ops[struct_tag].op = "Modify" THEN
                 IF struct_tag \notin DOMAIN source_data THEN None
                 ELSE ApplyMemberOps_modify_lost(source_data, ops, i + 1)
             ELSE
                 IF struct_tag \in DOMAIN source_data THEN None
                 ELSE ApplyMemberOps_modify_lost(
                        (struct_tag :> ops[struct_tag].data) @@ source_data, ops, i + 1)

\* the loop over resources.into_resources() with a New arm that overwrites
\* the bytes of a member the container already holds
RECURSIVE ApplyMemberOps_new_overwrites(_, _, _)
ApplyMemberOps_new_overwrites(source_data, ops, i) ==
    IF i > Len(MemberOrder) THEN Some(source_data)
    ELSE LET struct_tag == MemberOrder[i]
         IN  IF struct_tag \notin DOMAIN ops
                 THEN ApplyMemberOps_new_overwrites(source_data, ops, i + 1)
             ELSE IF ops[struct_tag].op = "Delete" THEN
                 IF struct_tag \notin DOMAIN source_data THEN None
                 ELSE ApplyMemberOps_new_overwrites(
                        [t \in DOMAIN source_data \ {struct_tag} |-> source_data[t]], ops, i + 1)
             ELSE IF ops[struct_tag].op = "Modify" THEN
                 IF struct_tag \notin DOMAIN source_data THEN None
                 ELSE ApplyMemberOps_new_overwrites(
                        [source_data EXCEPT ![struct_tag] = ops[struct_tag].data], ops, i + 1)
             ELSE ApplyMemberOps_new_overwrites(
                        (struct_tag :> ops[struct_tag].data) @@ source_data, ops, i + 1)

\* the loop over resources.into_resources() with a Delete arm that accepts
\* a member the container does not hold
RECURSIVE ApplyMemberOps_delete_tolerant(_, _, _)
ApplyMemberOps_delete_tolerant(source_data, ops, i) ==
    IF i > Len(MemberOrder) THEN Some(source_data)
    ELSE LET struct_tag == MemberOrder[i]
         IN  IF struct_tag \notin DOMAIN ops
                 THEN ApplyMemberOps_delete_tolerant(source_data, ops, i + 1)
             ELSE IF ops[struct_tag].op = "Delete" THEN
                 ApplyMemberOps_delete_tolerant(
                        [t \in DOMAIN source_data \ {struct_tag} |-> source_data[t]], ops, i + 1)
             ELSE IF ops[struct_tag].op = "Modify" THEN
                 IF struct_tag \notin DOMAIN source_data THEN None
                 ELSE ApplyMemberOps_delete_tolerant(
                        [source_data EXCEPT ![struct_tag] = ops[struct_tag].data], ops, i + 1)
             ELSE
                 IF struct_tag \in DOMAIN source_data THEN None
                 ELSE ApplyMemberOps_delete_tolerant(
                        (struct_tag :> ops[struct_tag].data) @@ source_data, ops, i + 1)

\* the loop over resources.into_resources(): None when an op does not fit the
\* container, else the container with the ops applied
RECURSIVE ApplyMemberOps(_, _, _)
ApplyMemberOps(source_data, ops, i) ==
    IF i > Len(MemberOrder) THEN Some(source_data)
    ELSE LET struct_tag == MemberOrder[i]
         IN  IF struct_tag \notin DOMAIN ops THEN ApplyMemberOps(source_data, ops, i + 1)
             ELSE IF ops[struct_tag].op = "Delete" THEN
                 IF struct_tag \notin DOMAIN source_data THEN None
                 ELSE ApplyMemberOps([t \in DOMAIN source_data \ {struct_tag} |-> source_data[t]],
                                     ops, i + 1)
             ELSE IF ops[struct_tag].op = "Modify" THEN
                 IF struct_tag \notin DOMAIN source_data THEN None
                 ELSE ApplyMemberOps([source_data EXCEPT ![struct_tag] = ops[struct_tag].data],
                                     ops, i + 1)
             ELSE
                 IF struct_tag \in DOMAIN source_data THEN None
                 ELSE ApplyMemberOps((struct_tag :> ops[struct_tag].data) @@ source_data,
                                     ops, i + 1)
\* the group-level op without the test for an empty container
GroupOp_never_delete(source_data, create) ==
    IF create THEN New(to_bytes(source_data))
    ELSE Modify(to_bytes(source_data))

\* the group-level op with the test for a new slot ahead of the test for
\* an empty container
GroupOp_create_first(source_data, create) ==
    IF create THEN New(to_bytes(source_data))
    ELSE IF DOMAIN source_data = {} THEN Delete
    ELSE Modify(to_bytes(source_data))

\* the group-level op chosen once the member ops are applied
GroupOp(source_data, create) ==
    IF DOMAIN source_data = {} THEN Delete
    ELSE IF create THEN New(to_bytes(source_data))
    ELSE Modify(to_bytes(source_data))

\* one iteration of the loop over resource_groups: None is common_error
MergeGroup(addr, resource_tag, ops) ==
    LET read == get_resource_group_data(addr, resource_tag)
        create == ~IsSome(read.value)
        decoded == IF create THEN Some(EmptyContainer) ELSE from_bytes(Unwrap(read.value))
        applied == IF IsSome(decoded) THEN ApplyMemberOps(Unwrap(decoded), ops, 1) ELSE None
    IN  IF ~read.ok \/ ~IsSome(decoded) \/ ~IsSome(applied) THEN None
        ELSE Some(GroupOp(Unwrap(applied), create))

\* Result<Option<CurrentTimeMicroseconds>, ()>
parse_updated_timestamp(op) ==
    IF op.op \in {"New", "Modify"}
    THEN (IF IsSome(timestamp_from_bytes(op.data))
          THEN [ok |-> TRUE, value |-> timestamp_from_bytes(op.data)]
          ELSE [ok |-> FALSE, value |-> None])
    ELSE [ok |-> FALSE, value |-> None]

\* a resolution that falls back to the ledger when the update is unusable
get_current_timestamp_fallback(updated) ==
    IF updated.ok /\ IsSome(updated.value) THEN updated.value
    ELSE fetch_config

get_current_timestamp(updated) ==
    IF updated.ok /\ IsSome(updated.value) THEN updated.value
    ELSE IF updated.ok THEN fetch_config
    ELSE None

\* the (owner, group) pairs that have member ops in the session
TouchedGroups(resources) ==
    {g \in GroupSlots : DOMAIN MemberOps(resources, g[1], g[2]) # {}}

\* a merge that folds the group members and also leaves them among the
\* flat resources
split_and_merge_keeps_members(cs) ==
    LET flat == DOMAIN cs.resources
        touched == TouchedGroups(cs.resources)
        merged == [g \in touched |-> MergeGroup(g[1], g[2], MemberOps(cs.resources, g[1], g[2]))]
        ts == {s \in flat : s[1] = CORE_CODE_ADDRESS /\ s[2] = TimestampTag}
    IN  [ok |-> \A g \in touched : IsSome(merged[g]),
         change_set_filtered |->
             [resources |-> [s \in flat |-> cs.resources[s]], modules |-> cs.modules],
         resource_group_change_set |->
             [g \in {x \in touched : IsSome(merged[x])} |-> Unwrap(merged[g])],
         updated_timestamp |->
             IF ts # {} THEN parse_updated_timestamp(cs.resources[CHOOSE s \in ts : TRUE])
             ELSE [ok |-> TRUE, value |-> None]]

split_and_merge_resource_groups(cs) ==
    LET flat == {s \in DOMAIN cs.resources : get_resource_group(s[2]) = None}
        touched == TouchedGroups(cs.resources)
        merged == [g \in touched |-> MergeGroup(g[1], g[2], MemberOps(cs.resources, g[1], g[2]))]
        ts == {s \in flat : s[1] = CORE_CODE_ADDRESS /\ s[2] = TimestampTag}
    IN  [ok |-> \A g \in touched : IsSome(merged[g]),
         change_set_filtered |->
             [resources |-> [s \in flat |-> cs.resources[s]], modules |-> cs.modules],
         resource_group_change_set |->
             [g \in {x \in touched : IsSome(merged[x])} |-> Unwrap(merged[g])],
         updated_timestamp |->
             IF ts # {} THEN parse_updated_timestamp(cs.resources[CHOOSE s \in ts : TRUE])
             ELSE [ok |-> TRUE, value |-> None]]

\* ------------------------------------------------------ WriteOpConverter
WriteOp(kind, data, metadata) == [kind |-> kind, data |-> data, metadata |-> metadata]
\* new_slot_metadata that only asks for a payer
new_slot_metadata_payer_only(payer, time) ==
    IF IsSome(payer)
    THEN Some(StateValueMetadata(Unwrap(payer), 0, IF IsSome(time) THEN Unwrap(time) ELSE 0))
    ELSE None

\* new_slot_metadata as convert_change_set computes it
new_slot_metadata(payer, time) ==
    IF IsSome(payer) /\ IsSome(time)
    THEN Some(StateValueMetadata(Unwrap(payer), 0, Unwrap(time)))
    ELSE None
\* the rejected pairs without the Delete of an absent slot
is_mismatch_delete_allowed(existing_value_opt, move_storage_op) ==
    \/ ~IsSome(existing_value_opt) /\ move_storage_op.op = "Modify"
    \/ IsSome(existing_value_opt) /\ move_storage_op.op = "New"

\* the rejected pairs without the New of an existing slot
is_mismatch_new_allowed(existing_value_opt, move_storage_op) ==
    ~IsSome(existing_value_opt) /\ move_storage_op.op \in {"Modify", "Delete"}

\* the (prior value, op) pairs that convert rejects
is_mismatch(existing_value_opt, move_storage_op) ==
    \/ ~IsSome(existing_value_opt) /\ move_storage_op.op \in {"Modify", "Delete"}
    \/ IsSome(existing_value_opt) /\ move_storage_op.op = "New"
\* the arm (None, New(data)) with the legacy flag read the wrong way round
creation_op_flag_inverted(slot_metadata, data, legacy_creation_as_modification) ==
    IF ~IsSome(slot_metadata) THEN
        IF legacy_creation_as_modification
        THEN WriteOp("Creation", data, None)
        ELSE WriteOp("Modification", data, None)
    ELSE WriteOp("CreationWithMetadata", data, slot_metadata)

\* the arm (None, New(data))
creation_op(slot_metadata, data, legacy_creation_as_modification) ==
    IF ~IsSome(slot_metadata) THEN
        IF legacy_creation_as_modification
        THEN WriteOp("Modification", data, None)
        ELSE WriteOp("Creation", data, None)
    ELSE WriteOp("CreationWithMetadata", data, slot_metadata)
\* the arm (Some(existing_value), Modify(data)) that drops the prior metadata
modification_op_no_inherit(existing_value, data) ==
    WriteOp("Modification", data, None)

\* the arm (Some(existing_value), Modify(data))
modification_op(existing_value, data) ==
    IF ~IsSome(existing_value.metadata)
    THEN WriteOp("Modification", data, None)
    ELSE WriteOp("ModificationWithMetadata", data, existing_value.metadata)

\* the arm (Some(existing_value), Delete)
deletion_op(existing_value) ==
    IF ~IsSome(existing_value.metadata)
    THEN WriteOp("Deletion", <<>>, None)
    ELSE WriteOp("DeletionWithMetadata", <<>>, existing_value.metadata)

\* a converter that drops the metadata of a module it modifies
convert_modules_without_metadata(slot_metadata, state_key, move_storage_op, legacy_creation_as_modification) ==
    LET read == get_state_value(state_key)
        existing_value_opt == read.value
        fail(code) == [status |-> code, op |-> None]
        done(op) == [status |-> "EXECUTED", op |-> Some(op)]
    IN  IF ~read.ok THEN fail("STORAGE_ERROR")
        ELSE IF is_mismatch(existing_value_opt, move_storage_op)
            THEN fail("UNKNOWN_INVARIANT_VIOLATION_ERROR")
        ELSE IF ~IsSome(existing_value_opt)
            THEN done(creation_op(slot_metadata, move_storage_op.data,
                                  legacy_creation_as_modification))
        ELSE IF move_storage_op.op = "Modify"
            THEN IF state_key[1] = "module"
                 THEN done(WriteOp("Modification", move_storage_op.data, None))
                 ELSE done(modification_op(Unwrap(existing_value_opt),
                                           move_storage_op.data))
        ELSE done(deletion_op(Unwrap(existing_value_opt)))

\* a converter that classifies by the move op alone, without the test
\* against the stored value
convert_by_op_alone(slot_metadata, state_key, move_storage_op, legacy_creation_as_modification) ==
    LET read == get_state_value(state_key)
        existing_value_opt == read.value
        fail(code) == [status |-> code, op |-> None]
        done(op) == [status |-> "EXECUTED", op |-> Some(op)]
    IN  IF ~read.ok THEN fail("STORAGE_ERROR")
        ELSE IF move_storage_op.op = "New"
            THEN done(creation_op(slot_metadata, move_storage_op.data,
                                  legacy_creation_as_modification))
        ELSE IF ~IsSome(existing_value_opt)
            THEN done(WriteOp(IF move_storage_op.op = "Modify" THEN "Modification"
                              ELSE "Deletion", move_storage_op.data, None))
        ELSE IF move_storage_op.op = "Modify"
            THEN done(modification_op(Unwrap(existing_value_opt), move_storage_op.data))
        ELSE done(deletion_op(Unwrap(existing_value_opt)))

\* WriteOpConverter::convert: a status and, when it is EXECUTED, the write op
convert(slot_metadata, state_key, move_storage_op, legacy_creation_as_modification) ==
    LET read == get_state_value(state_key)
        existing_value_opt == read.value
        fail(code) == [status |-> code, op |-> None]
        done(op) == [status |-> "EXECUTED", op |-> Some(op)]
    IN  IF ~read.ok THEN fail("STORAGE_ERROR")
        ELSE IF is_mismatch(existing_value_opt, move_storage_op)
            THEN fail("UNKNOWN_INVARIANT_VIOLATION_ERROR")
        ELSE IF ~IsSome(existing_value_opt)
            THEN done(creation_op(slot_metadata, move_storage_op.data,
                                  legacy_creation_as_modification))
        ELSE IF move_storage_op.op = "Modify"
            THEN done(modification_op(Unwrap(existing_value_opt), move_storage_op.data))
        ELSE done(deletion_op(Unwrap(existing_value_opt)))

\* ----------------------------------------------------------- WriteSetMut
\* entries [key, op]
WriteSetKeys(ws) == {ws[i].key : i \in 1..Len(ws)}

\* WriteSetMut::get
WriteSetGet(ws, state_key) ==
    IF state_key \in WriteSetKeys(ws)
    THEN Some(ws[CHOOSE i \in 1..Len(ws) : ws[i].key = state_key].op)
    ELSE None
\* WriteSetMut::insert that keeps the op already held by the key and adds one
WriteSetPush(ws, state_key, op) ==
    Append(ws, [key |-> state_key, op |-> op])

\* WriteSetMut::insert: the map keeps one op per key, the last one inserted
WriteSetInsert(ws, state_key, op) ==
    IF state_key \in WriteSetKeys(ws)
    THEN [i \in 1..Len(ws) |-> IF ws[i].key = state_key
                               THEN [key |-> state_key, op |-> op] ELSE ws[i]]
    ELSE Append(ws, [key |-> state_key, op |-> op])

\* WriteSetMut::freeze: None when a key was inserted twice
freeze(ws) ==
    IF \E i, j \in 1..Len(ws) : i # j /\ ws[i].key = ws[j].key THEN None ELSE Some(ws)

\* DeltaChangeSet::insert
DeltaInsert(ds, state_key, delta_op) ==
    [k \in DOMAIN ds \cup {state_key} |-> IF k = state_key THEN delta_op ELSE ds[k]]

\* ---------------------------------------------------- range proof natives
\* abort_codes
NFE_DESERIALIZE_RANGE_PROOF == 65537
NFE_RANGE_NOT_SUPPORTED == 65539

\* is_supported_number_of_bits accepting every width up to 64
is_supported_number_of_bits_up_to_64(num_bits) == num_bits \in 1..64

is_supported_number_of_bits(num_bits) == num_bits \in {8, 16, 32, 64}

\* arguments of a call: the domain separation tag, the commitment and the
\* widths and proofs a caller may pass
Dst == <<1>>
Commitment == 1
NumBitsInputs == {0, 8, 9, 16, 32, 63, 64, 65}

\* stand-in for the wire format of bulletproofs::RangeProof: the commitment
\* and the width proved, and the tag of the transcript
RangeProofBytes(comm, bits, dst) == <<comm, bits>> \o dst

ProofInputs == {<<>>, <<1>>, <<1, 8, 1, 1>>}
                 \cup {RangeProofBytes(c, b, Dst) : c \in {1, 2}, b \in {8, 16}}

\* bulletproofs::RangeProof::from_bytes
RangeProof_from_bytes(proof_bytes) ==
    IF Len(proof_bytes) = 2 + Len(Dst)
    THEN Some([comm |-> proof_bytes[1], bits |-> proof_bytes[2],
               dst |-> SubSeq(proof_bytes, 3, Len(proof_bytes))])
    ELSE None

\* RangeProof::verify_single(..).is_ok()
verify_single(range_proof, comm_point, bit_length, dst) ==
    /\ range_proof.comm = comm_point
    /\ range_proof.bits = bit_length
    /\ range_proof.dst = dst

GasParameterInputs ==
    [base : {1, 2}, per_byte_rangeproof_deserialize : {1},
     per_bit_rangeproof_verify : {0, 1}]

\* SafeNativeResult of a call
NoOutcome == [kind |-> "none", abort_code |-> 0, value |-> FALSE]
Abort(code) == [kind |-> "abort", abort_code |-> code, value |-> FALSE]
OutOfGas == [kind |-> "out_of_gas", abort_code |-> 0, value |-> FALSE]
Return(success) == [kind |-> "return", abort_code |-> 0, value |-> success]

NoCall ==
    [fn |-> "none", dst |-> <<>>, num_bits |-> 0, proof_bytes |-> <<>>,
     comm_bytes |-> 0, gas_params |-> [base |-> 0, per_byte_rangeproof_deserialize |-> 0,
                                       per_bit_rangeproof_verify |-> 0],
     gas_balance |-> 0, gas_used |-> 0, pos |-> "returned", trace |-> <<>>,
     outcome |-> NoOutcome]

Call(fn, num_bits, proof_bytes, gas_params, gas_balance) ==
    [fn |-> fn, dst |-> Dst, num_bits |-> num_bits, proof_bytes |-> proof_bytes,
     comm_bytes |-> Commitment, gas_params |-> gas_params,
     gas_balance |-> gas_balance, gas_used |-> 0, pos |-> "entry", trace |-> <<>>,
     outcome |-> NoOutcome]

\* the session is not part of a native call
sessionSide == <<storage, faulty, new_slot_payer, change_set, table_change_set,
                 aggregator_change_set, events, pc, legacy, change_set_filtered,
                 resource_group_change_set, updated_timestamp, current_time, todo,
                 write_set_mut, delta_change_set, result, last>>

\* context.charge(amount)?: the gas is added to the gas used, and the call
\* ends when that exceeds the balance
charge(call, amount, next) ==
    LET used == call.gas_used + amount
    IN  IF used <= call.gas_balance
        THEN [call EXCEPT !.gas_used = used, !.trace = Append(@, "charge"),
                          !.pos = next]
        ELSE [call EXCEPT !.gas_used = used, !.trace = Append(@, "charge"),
                          !.pos = "returned", !.outcome = OutOfGas]

\* native_verify_range_proof up to the call of verify_range_proof
native_verify_range_proof ==
    /\ native_call.fn = "verify_range_proof_internal"
    /\ native_call.pos = "entry"
    /\ native_call' =
         IF ~is_supported_number_of_bits(native_call.num_bits)
         THEN [native_call EXCEPT
                 !.trace = @ \o <<"pop dst", "pop num_bits">>,
                 !.pos = "returned",
                 !.outcome = Abort(NFE_RANGE_NOT_SUPPORTED)]
         ELSE [native_call EXCEPT
                 !.trace = @ \o <<"pop dst", "pop num_bits", "pop proof_bytes",
                                  "pop comm_bytes">>,
                 !.pos = "charge base"]
    /\ UNCHANGED sessionSide

\* native_verify_range_proof_custom_ck up to the call of verify_range_proof
native_verify_range_proof_custom_ck ==
    /\ native_call.fn = "verify_range_proof_custom_ck_internal"
    /\ native_call.pos = "entry"
    /\ LET popped == <<"pop dst", "pop num_bits", "pop proof_bytes",
                       "pop rand_base", "pop val_base", "pop comm_bytes">>
       IN  native_call' =
             IF ~is_supported_number_of_bits(native_call.num_bits)
             THEN [native_call EXCEPT
                     !.trace = @ \o popped,
                     !.pos = "returned",
                     !.outcome = Abort(NFE_RANGE_NOT_SUPPORTED)]
             ELSE [native_call EXCEPT
                     !.trace = @ \o popped \o <<"get_point">>,
                     !.pos = "charge base"]
    /\ UNCHANGED sessionSide

\* verify_range_proof: context.charge(self.base)?
ChargeBase ==
    /\ native_call.pos = "charge base"
    /\ native_call' = charge(native_call, native_call.gas_params.base, "charge bytes")
    /\ UNCHANGED sessionSide

\* verify_range_proof: the charge per byte of the proof
ChargeDeserialize ==
    /\ native_call.pos = "charge bytes"
    /\ native_call' =
         charge(native_call,
                native_call.gas_params.per_byte_rangeproof_deserialize
                    * Len(native_call.proof_bytes),
                "from_bytes")
    /\ UNCHANGED sessionSide

\* verify_range_proof: RangeProof::from_bytes(proof_bytes)
Deserialize ==
    /\ native_call.pos = "from_bytes"
    /\ native_call' =
         IF IsSome(RangeProof_from_bytes(native_call.proof_bytes))
         THEN [native_call EXCEPT !.trace = Append(@, "from_bytes"),
                                  !.pos = "charge bits"]
         ELSE [native_call EXCEPT !.trace = Append(@, "from_bytes"),
                                  !.pos = "returned",
                                  !.outcome = Abort(NFE_DESERIALIZE_RANGE_PROOF)]
    /\ UNCHANGED sessionSide

\* verify_range_proof: the charge per bit of the range
ChargeVerify ==
    /\ native_call.pos = "charge bits"
    /\ native_call' =
         charge(native_call,
                native_call.gas_params.per_bit_rangeproof_verify * native_call.num_bits,
                "verify_single")
    /\ UNCHANGED sessionSide

\* verify_range_proof: verify_single and the return of its outcome
VerifySingle ==
    /\ native_call.pos = "verify_single"
    /\ native_call' =
         [native_call EXCEPT
            !.trace = Append(@, "verify_single"),
            !.pos = "returned",
            !.outcome = Return(verify_single(
                            Unwrap(RangeProof_from_bytes(native_call.proof_bytes)),
                            native_call.comm_bytes, native_call.num_bits,
                            native_call.dst))]
    /\ UNCHANGED sessionSide

\* --------------------------------------------------------------- session
NumEffects ==
    Cardinality(DOMAIN change_set.resources) + Cardinality(DOMAIN change_set.modules)
        + Cardinality(DOMAIN table_change_set) + Cardinality(DOMAIN aggregator_change_set)
        + Len(events)

\* a loop iteration of convert_change_set: the state key, the op handed to
\* convert (if any) with its flag, what the state view held at the key, what
\* write_set_mut held at the key, and the outcome
Step(kind, state_key, move_op, flag, direct_write, status, op) ==
    [kind |-> kind, state_key |-> state_key, move_op |-> move_op, legacy |-> flag,
     existing |-> get_state_value(state_key), direct_write |-> direct_write,
     status |-> status, op |-> op]

NoStep == [kind |-> "none", state_key |-> <<>>, move_op |-> None, legacy |-> FALSE,
           existing |-> [ok |-> TRUE, value |-> None], direct_write |-> None,
           status |-> "NONE", op |-> None]

NoResult == [status |-> "NONE", change_set_ext |-> None]

\* a failure that hands back the write-set and the deltas built so far
Failure_partial(code) ==
    [status |-> code,
     change_set_ext |-> Some([delta_change_set |-> delta_change_set,
                              write_set |-> write_set_mut, events |-> <<>>])]

Failure(code) == [status |-> code, change_set_ext |-> None]

Fresh ==
    /\ change_set = EmptyChangeSet
    /\ table_change_set = EmptyMap
    /\ aggregator_change_set = EmptyMap
    /\ events = <<>>
    /\ pc = "exec"
    /\ legacy = FALSE
    /\ change_set_filtered = EmptyChangeSet
    /\ resource_group_change_set = EmptyMap
    /\ updated_timestamp = [ok |-> TRUE, value |-> None]
    /\ current_time = None
    /\ todo = <<>>
    /\ write_set_mut = <<>>
    /\ delta_change_set = EmptyMap
    /\ result = NoResult
    /\ last = NoStep

Init ==
    /\ \E w \in Worlds : storage = w[1] /\ faulty = w[2]
    /\ new_slot_payer \in {None, Some(Payer)}
    /\ Fresh
    /\ native_call = NoCall

pipelineVars == <<pc, legacy, change_set_filtered, resource_group_change_set,
                  updated_timestamp, current_time, todo, write_set_mut,
                  delta_change_set, result, last>>

\* the session records an op for one of the resources in slots
RecordResourceOp(slots) ==
    \E slot \in slots \ DOMAIN change_set.resources : \E op \in OpsFor(slot) :
        change_set' = [change_set EXCEPT !.resources = (slot :> op) @@ @]

AddResourceOp ==
    /\ pc = "exec"
    /\ NumEffects < MaxEffects
    /\ RecordResourceOp(ResourceSlots)
    /\ UNCHANGED <<nativeVars, remoteVars, new_slot_payer, table_change_set, aggregator_change_set,
                   events, pipelineVars>>

AddMemberOp ==
    /\ pc = "exec"
    /\ NumEffects < MaxEffects
    /\ RecordResourceOp(MemberSlots)
    /\ UNCHANGED <<nativeVars, remoteVars, new_slot_payer, table_change_set, aggregator_change_set,
                   events, pipelineVars>>

AddModuleOp ==
    /\ pc = "exec"
    /\ NumEffects < MaxEffects
    /\ \E slot \in ModuleSlots \ DOMAIN change_set.modules : \E op \in OpsFor(slot) :
            change_set' = [change_set EXCEPT !.modules = (slot :> op) @@ @]
    /\ UNCHANGED <<nativeVars, remoteVars, new_slot_payer, table_change_set, aggregator_change_set,
                   events, pipelineVars>>

AddTableOp ==
    /\ pc = "exec"
    /\ NumEffects < MaxEffects
    /\ \E slot \in TableSlots \ DOMAIN table_change_set : \E op \in OpsFor(slot) :
            table_change_set' = (slot :> op) @@ table_change_set
    /\ UNCHANGED <<nativeVars, remoteVars, new_slot_payer, change_set, aggregator_change_set,
                   events, pipelineVars>>

AddAggregatorChange ==
    /\ pc = "exec"
    /\ NumEffects < MaxEffects
    /\ \E id \in AggregatorSlots \ DOMAIN aggregator_change_set :
        \E change \in AggregatorChanges :
            aggregator_change_set' = (id :> change) @@ aggregator_change_set
    /\ UNCHANGED <<nativeVars, remoteVars, new_slot_payer, change_set, table_change_set,
                   events, pipelineVars>>

EmitEvent ==
    /\ pc = "exec"
    /\ NumEffects < MaxEffects
    /\ \E e \in RawEvents :
            events' = Append(events, [guid |-> e.guid, seq_num |-> Len(events),
                                      ty_tag |-> e.ty_tag, blob |-> e.blob])
    /\ UNCHANGED <<nativeVars, remoteVars, new_slot_payer, change_set, table_change_set,
                   aggregator_change_set, pipelineVars>>

\* ------------------------------------------ finish_with_current_timestamp
\* the order in which convert_change_set visits what the session changed:
\* per account its resources, then its modules; then the resource groups,
\* the table entries and the aggregators
ConversionOrder ==
    <<[kind |-> "resource", slot |-> <<CORE_CODE_ADDRESS, TimestampTag>>],
      [kind |-> "resource", slot |-> <<Owner, "R1">>],
      [kind |-> "resource", slot |-> <<Owner, TimestampTag>>],
      [kind |-> "module", slot |-> <<Owner, "M">>],
      [kind |-> "group", slot |-> <<Owner, GroupTag>>],
      [kind |-> "table", slot |-> <<Handle, "k1">>],
      [kind |-> "aggregator", slot |-> <<Handle, "k1">>],
      [kind |-> "aggregator", slot |-> <<Handle, "k2">>]>>

Visited(filtered, groups, item) ==
    \/ item.kind = "resource" /\ item.slot \in DOMAIN filtered.resources
    \/ item.kind = "module" /\ item.slot \in DOMAIN filtered.modules
    \/ item.kind = "group" /\ item.slot \in DOMAIN groups
    \/ item.kind = "table" /\ item.slot \in DOMAIN table_change_set
    \/ item.kind = "aggregator" /\ item.slot \in DOMAIN aggregator_change_set

\* finish_with_current_timestamp up to the first loop of convert_change_set
FinishWithCurrentTimestamp ==
    /\ pc = "exec"
    /\ \E flag \in BOOLEAN :
        LET merged == split_and_merge_resource_groups(change_set)
        IN  IF merged.ok
            THEN /\ legacy' = flag
                 /\ change_set_filtered' = merged.change_set_filtered
                 /\ resource_group_change_set' = merged.resource_group_change_set
                 /\ updated_timestamp' = merged.updated_timestamp
                 /\ current_time' = get_current_timestamp(merged.updated_timestamp)
                 /\ todo' = SelectSeq(ConversionOrder,
                                LAMBDA item : Visited(merged.change_set_filtered,
                                                      merged.resource_group_change_set, item))
                 /\ pc' = "convert"
                 /\ result' = result
            ELSE /\ legacy' = flag
                 /\ pc' = "failed"
                 /\ result' = Failure("UNKNOWN_INVARIANT_VIOLATION_ERROR")
                 /\ UNCHANGED <<change_set_filtered, resource_group_change_set,
                                updated_timestamp, current_time, todo>>
    /\ UNCHANGED <<nativeVars, remoteVars, sessionVars, write_set_mut, delta_change_set, last>>

\* woc.convert(&state_key, op, flag)? followed by write_set_mut.insert
ConvertAndInsert(kind, state_key, move_op, flag) ==
    LET converted == convert(new_slot_metadata(new_slot_payer, current_time),
                             state_key, move_op, flag)
    IN  /\ last' = Step(kind, state_key, Some(move_op), flag,
                         WriteSetGet(write_set_mut, state_key),
                         converted.status, converted.op)
        /\ IF converted.status = "EXECUTED"
           THEN /\ write_set_mut' = WriteSetInsert(write_set_mut, state_key,
                                                   Unwrap(converted.op))
                /\ todo' = Tail(todo)
                /\ UNCHANGED <<pc, result>>
           ELSE /\ pc' = "failed"
                /\ result' = Failure(converted.status)
                /\ UNCHANGED <<write_set_mut, todo>>
        /\ UNCHANGED <<nativeVars, remoteVars, sessionVars, mergeVars, delta_change_set>>

Visiting(kind) == pc = "convert" /\ todo # <<>> /\ Head(todo).kind = kind

ConvertResource ==
    /\ Visiting("resource")
    /\ LET slot == Head(todo).slot
       IN  ConvertAndInsert("resource", ResourceKey(slot[1], slot[2]),
                            change_set_filtered.resources[slot], legacy)

ConvertModule ==
    /\ Visiting("module")
    /\ LET slot == Head(todo).slot
       IN  ConvertAndInsert("module", ModuleKey(slot[1], slot[2]),
                            change_set_filtered.modules[slot], FALSE)

ConvertResourceGroup ==
    /\ Visiting("group")
    /\ LET slot == Head(todo).slot
       IN  ConvertAndInsert("group", ResourceGroupKey(slot[1], slot[2]),
                            resource_group_change_set[slot], FALSE)

ConvertTableEntry ==
    /\ Visiting("table")
    /\ LET slot == Head(todo).slot
       IN  ConvertAndInsert("table", TableItemKey(slot[1], slot[2]),
                            table_change_set[slot], FALSE)

ModificationOrDeletion ==
    {"Modification", "ModificationWithMetadata", "Deletion", "DeletionWithMetadata"}
\* an AggregatorChange::Write that turns a direct modification or deletion
\* into a Modify instead of the error
AggregatorWriteOp_as_modify(direct_write, value) ==
    IF IsSome(direct_write) /\ Unwrap(direct_write).kind \in ModificationOrDeletion
    THEN Some(Modify(serialize(value)))
    ELSE Some(New(serialize(value)))

\* a Write that modifies the slot when the write-set holds no op for it
AggregatorWriteOp_modify_unwritten(direct_write, value) ==
    IF IsSome(direct_write) /\ Unwrap(direct_write).kind \in ModificationOrDeletion
    THEN None
    ELSE IF IsSome(direct_write) THEN Some(New(serialize(value)))
    ELSE Some(Modify(serialize(value)))

\* a Write that refuses every key the write-set already holds an op for
AggregatorWriteOp_rejects_written(direct_write, value) ==
    IF IsSome(direct_write) THEN None
    ELSE Some(New(serialize(value)))

\* the move op an AggregatorChange::Write becomes: None is the
\* "Direct write to aggregator value" error
AggregatorWriteOp(direct_write, value) ==
    IF IsSome(direct_write) /\ Unwrap(direct_write).kind \in ModificationOrDeletion
    THEN None
    ELSE Some(New(serialize(value)))

AggregatorWrite ==
    /\ Visiting("aggregator")
    /\ aggregator_change_set[Head(todo).slot].kind = "Write"
    /\ LET id == Head(todo).slot
           state_key == TableItemKey(id[1], id[2])
           direct_write == WriteSetGet(write_set_mut, state_key)
           move_op == AggregatorWriteOp(direct_write, aggregator_change_set[id].value)
       IN  IF IsSome(move_op)
           THEN ConvertAndInsert("aggregator_write", state_key, Unwrap(move_op), FALSE)
           ELSE /\ last' = Step("aggregator_write", state_key, None, FALSE, direct_write,
                                 "UNKNOWN_INVARIANT_VIOLATION_ERROR", None)
                /\ pc' = "failed"
                /\ result' = Failure("UNKNOWN_INVARIANT_VIOLATION_ERROR")
                /\ UNCHANGED <<nativeVars, remoteVars, sessionVars, mergeVars, todo, write_set_mut,
                               delta_change_set>>

\* a Merge that refuses a key the write-set already holds an op for
AggregatorMerge_checked ==
    /\ Visiting("aggregator")
    /\ aggregator_change_set[Head(todo).slot].kind = "Merge"
    /\ LET id == Head(todo).slot
           state_key == TableItemKey(id[1], id[2])
           direct_write == WriteSetGet(write_set_mut, state_key)
       IN  IF IsSome(direct_write)
           THEN /\ last' = Step("aggregator_merge", state_key, None, FALSE, direct_write,
                                 "UNKNOWN_INVARIANT_VIOLATION_ERROR", None)
                /\ pc' = "failed"
                /\ result' = Failure("UNKNOWN_INVARIANT_VIOLATION_ERROR")
                /\ UNCHANGED <<todo, delta_change_set>>
           ELSE /\ delta_change_set' =
                     DeltaInsert(delta_change_set, state_key, aggregator_change_set[id].value)
                /\ last' = Step("aggregator_merge", state_key, None, FALSE,
                                 direct_write, "EXECUTED", None)
                /\ todo' = Tail(todo)
                /\ UNCHANGED <<pc, result>>
    /\ UNCHANGED <<nativeVars, remoteVars, sessionVars, mergeVars, write_set_mut>>

AggregatorMerge ==
    /\ Visiting("aggregator")
    /\ aggregator_change_set[Head(todo).slot].kind = "Merge"
    /\ LET id == Head(todo).slot
           state_key == TableItemKey(id[1], id[2])
       IN  /\ delta_change_set' =
                DeltaInsert(delta_change_set, state_key, aggregator_change_set[id].value)
           /\ last' = Step("aggregator_merge", state_key, None, FALSE,
                            WriteSetGet(write_set_mut, state_key), "EXECUTED", None)
    /\ todo' = Tail(todo)
    /\ UNCHANGED <<nativeVars, remoteVars, sessionVars, mergeVars, pc, write_set_mut, result>>

\* a Delete that asks for a Deletion of the key already in the write-set
AggregatorDelete_requires_deletion ==
    /\ Visiting("aggregator")
    /\ aggregator_change_set[Head(todo).slot].kind = "Delete"
    /\ LET id == Head(todo).slot
           state_key == TableItemKey(id[1], id[2])
           direct_write == WriteSetGet(write_set_mut, state_key)
       IN  IF IsSome(direct_write) /\ Unwrap(direct_write).kind \in {"Deletion", "DeletionWithMetadata"}
           THEN ConvertAndInsert("aggregator_delete", state_key, Delete, FALSE)
           ELSE /\ last' = Step("aggregator_delete", state_key, Some(Delete), FALSE,
                                 direct_write, "UNKNOWN_INVARIANT_VIOLATION_ERROR", None)
                /\ pc' = "failed"
                /\ result' = Failure("UNKNOWN_INVARIANT_VIOLATION_ERROR")
                /\ UNCHANGED <<nativeVars, remoteVars, sessionVars, mergeVars, todo, write_set_mut,
                               delta_change_set>>

AggregatorDelete ==
    /\ Visiting("aggregator")
    /\ aggregator_change_set[Head(todo).slot].kind = "Delete"
    /\ LET id == Head(todo).slot
       IN  ConvertAndInsert("aggregator_delete", TableItemKey(id[1], id[2]), Delete, FALSE)

\* write_set_mut.freeze()
Freeze ==
    /\ pc = "convert"
    /\ todo = <<>>
    /\ IF IsSome(freeze(write_set_mut))
       THEN pc' = "events" /\ result' = result
       ELSE pc' = "failed" /\ result' = Failure("DATA_FORMAT_ERROR")
    /\ UNCHANGED <<nativeVars, remoteVars, sessionVars, mergeVars, todo, write_set_mut,
                   delta_change_set, last>>

\* the translation that collects the events last to first
RECURSIVE TranslateEvents_reversed(_)
TranslateEvents_reversed(raw) ==
    IF raw = <<>> THEN Some(<<>>)
    ELSE LET key == event_key_from_bytes(Head(raw).guid)
             rest == TranslateEvents_reversed(Tail(raw))
         IN  IF ~IsSome(key) \/ ~IsSome(rest) THEN None
             ELSE Some(Unwrap(rest) \o
                       <<[key |-> Unwrap(key), seq_num |-> Head(raw).seq_num,
                          ty_tag |-> Head(raw).ty_tag, blob |-> Head(raw).blob]>>)

\* the translation that leaves out the events whose identifier is not an
\* event key
RECURSIVE TranslateEvents_skips_undecodable(_)
TranslateEvents_skips_undecodable(raw) ==
    IF raw = <<>> THEN Some(<<>>)
    ELSE LET key == event_key_from_bytes(Head(raw).guid)
             rest == TranslateEvents_skips_undecodable(Tail(raw))
         IN  IF ~IsSome(key) THEN rest
             ELSE Some(<<[key |-> Unwrap(key), seq_num |-> Head(raw).seq_num,
                          ty_tag |-> Head(raw).ty_tag, blob |-> Head(raw).blob]>>
                       \o Unwrap(rest))

\* the translated events, None when an identifier is not an event key
RECURSIVE TranslateEvents(_)
TranslateEvents(raw) ==
    IF raw = <<>> THEN Some(<<>>)
    ELSE LET key == event_key_from_bytes(Head(raw).guid)
             rest == TranslateEvents(Tail(raw))
         IN  IF ~IsSome(key) \/ ~IsSome(rest) THEN None
             ELSE Some(<<[key |-> Unwrap(key), seq_num |-> Head(raw).seq_num,
                          ty_tag |-> Head(raw).ty_tag, blob |-> Head(raw).blob]>>
                       \o Unwrap(rest))

\* ChangeSetExt::new(delta_change_set, ChangeSet::new(write_set, events))
ChangeSetExt(deltas, write_set, translated) ==
    [delta_change_set |-> deltas, write_set |-> write_set, events |-> translated]

\* the event translation and the return of convert_change_set
ReturnChangeSet ==
    /\ pc = "events"
    /\ LET translated == TranslateEvents(events)
       IN  IF IsSome(translated)
           THEN /\ pc' = "done"
                /\ result' = [status |-> "EXECUTED",
                              change_set_ext |->
                                Some(ChangeSetExt(delta_change_set,
                                                  Unwrap(freeze(write_set_mut)),
                                                  Unwrap(translated)))]
           ELSE /\ pc' = "failed"
                /\ result' = Failure("EVENT_KEY_MISMATCH")
    /\ UNCHANGED <<nativeVars, remoteVars, sessionVars, mergeVars, todo, write_set_mut,
                   delta_change_set, last>>

\* ------------------------------------------------------------- the ledger
\* the state a write op leaves at its key
Applied(op) ==
    IF op.kind \in {"Deletion", "DeletionWithMetadata"} THEN None
    ELSE Some(StateValue(op.data, op.metadata))

\* the ledger persists the write-set of a successful session
Commit ==
    /\ pc = "done"
    /\ LET write_set == Unwrap(result.change_set_ext).write_set
       IN  storage' = [k \in AllKeys |->
                        IF IsSome(WriteSetGet(write_set, k))
                        THEN Applied(Unwrap(WriteSetGet(write_set, k)))
                        ELSE storage[k]]
    /\ pc' = "committed"
    /\ UNCHANGED <<nativeVars, faulty, sessionVars, mergeVars, todo, write_set_mut,
                   delta_change_set, result, last>>

\* the next session starts on the committed state
NewSession ==
    /\ pc \in {"committed", "failed"}
    /\ new_slot_payer' \in {None, Some(Payer)}
    /\ change_set' = EmptyChangeSet
    /\ table_change_set' = EmptyMap
    /\ aggregator_change_set' = EmptyMap
    /\ events' = <<>>
    /\ pc' = "exec"
    /\ legacy' = FALSE
    /\ change_set_filtered' = EmptyChangeSet
    /\ resource_group_change_set' = EmptyMap
    /\ updated_timestamp' = [ok |-> TRUE, value |-> None]
    /\ current_time' = None
    /\ todo' = <<>>
    /\ write_set_mut' = <<>>
    /\ delta_change_set' = EmptyMap
    /\ result' = NoResult
    /\ last' = NoStep
    /\ UNCHANGED <<nativeVars, remoteVars>>

Next ==
    \/ AddResourceOp
    \/ AddModuleOp
    \/ AddTableOp
    \/ AddAggregatorChange
    \/ EmitEvent
    \/ FinishWithCurrentTimestamp
    \/ ConvertResource
    \/ ConvertModule
    \/ ConvertResourceGroup
    \/ ConvertTableEntry
    \/ AggregatorWrite
    \/ AggregatorMerge
    \/ AggregatorDelete
    \/ Freeze
    \/ ReturnChangeSet
    \/ Commit

Spec == Init /\ [][Next]_vars

\* sessions that only touch resource group members, committed one after
\* the other onto a readable, well-formed ledger
InitSessions ==
    /\ storage \in {EmptyStorage, StorageWithMetadata, StorageWithoutMetadata}
    /\ faulty = {}
    /\ new_slot_payer \in {None, Some(Payer)}
    /\ Fresh
    /\ native_call = NoCall

NextSessions ==
    \/ AddMemberOp
    \/ FinishWithCurrentTimestamp
    \/ ConvertResourceGroup
    \/ Freeze
    \/ ReturnChangeSet
    \/ Commit
    \/ NewSession

SpecSessions == InitSessions /\ [][NextSessions]_vars
\* a call of one of the two natives with well-typed arguments
InitNative ==
    /\ storage = EmptyStorage
    /\ faulty = {}
    /\ new_slot_payer = None
    /\ Fresh
    /\ \E fn \in {"verify_range_proof_internal", "verify_range_proof_custom_ck_internal"},
          num_bits \in NumBitsInputs, proof_bytes \in ProofInputs,
          gas_params \in GasParameterInputs, gas_balance \in 0..MaxGas :
            native_call = Call(fn, num_bits, proof_bytes, gas_params, gas_balance)

NextNative ==
    \/ native_verify_range_proof
    \/ native_verify_range_proof_custom_ck
    \/ ChargeBase
    \/ ChargeDeserialize
    \/ Deserialize
    \/ ChargeVerify
    \/ VerifySingle

SpecNative == InitNative /\ [][NextNative]_vars

\* the steps of finish_with_current_timestamp after the merge: the function
\* is sequential code, so a run that can take a step takes it
RunStep ==
    \/ ConvertResource
    \/ ConvertModule
    \/ ConvertResourceGroup
    \/ ConvertTableEntry
    \/ AggregatorWrite
    \/ AggregatorMerge
    \/ AggregatorDelete
    \/ Freeze
    \/ ReturnChangeSet

SpecRun == Init /\ [][Next]_vars /\ WF_vars(RunStep)

\* ------------------------------------------------------------ properties
Converted(ops) ==
    /\ last.kind # "none"
    /\ IsSome(last.move_op)
    /\ Unwrap(last.move_op).op \in ops

Absent == last.existing.ok /\ ~IsSome(last.existing.value)
Present == last.existing.ok /\ IsSome(last.existing.value)

\* the metadata the rule for new slots asks for: the payer, no deposit and
\* the current time when both are known
ExpectedMetadata ==
    IF IsSome(new_slot_payer) /\ IsSome(current_time)
    THEN Some(StateValueMetadata(Unwrap(new_slot_payer), 0, Unwrap(current_time)))
    ELSE None

UniqueKeys(ws) == \A i, j \in 1..Len(ws) : ws[i].key = ws[j].key => i = j

C2_AlwaysCreation ==
    (Converted({"New"}) /\ Absent) =>
        /\ last.status = "EXECUTED"
        /\ Unwrap(last.op).kind \in {"Creation", "CreationWithMetadata"}
        /\ Unwrap(last.op).data = Unwrap(last.move_op).data
        /\ Unwrap(last.op).metadata = ExpectedMetadata

\* C2 amended: New(data) on a slot without prior value converts to a write op
\* carrying data and the new-slot metadata; it is a CreationWithMetadata when
\* that metadata exists, else a Creation, except that a resource slot
\* converted under legacy_resource_creation_as_modification gets a
\* Modification (the flag is passed for resource slots only).
C2_CreationUnlessLegacy ==
    (Converted({"New"}) /\ Absent) =>
        /\ last.status = "EXECUTED"
        /\ Unwrap(last.op).data = Unwrap(last.move_op).data
        /\ Unwrap(last.op).metadata = ExpectedMetadata
        /\ Unwrap(last.op).kind =
             IF IsSome(ExpectedMetadata)
             THEN "CreationWithMetadata"
             ELSE IF last.kind = "resource" /\ legacy THEN "Modification"
             ELSE "Creation"
        /\ last.legacy => last.kind = "resource"

\* a resource created under the legacy flag without metadata
C2_Witness ==
    /\ Converted({"New"}) /\ Absent
    /\ last.kind = "resource"
    /\ legacy
    /\ Unwrap(last.op).kind = "Modification"

\* C3: Modify or Delete of a slot without prior value fails the run with
\* UNKNOWN_INVARIANT_VIOLATION_ERROR and yields no write op.
C3_AbsentModifyDeleteFails ==
    (Converted({"Modify", "Delete"}) /\ Absent) =>
        /\ pc = "failed"
        /\ last.status = "UNKNOWN_INVARIANT_VIOLATION_ERROR"
        /\ last.op = None
        /\ result = Failure("UNKNOWN_INVARIANT_VIOLATION_ERROR")
        /\ ~(last.state_key \in WriteSetKeys(write_set_mut)) \/ IsSome(last.direct_write)

\* a Delete of an absent resource under the legacy flag, with a payer
C3_Witness ==
    /\ Converted({"Delete"}) /\ Absent
    /\ last.kind = "resource"
    /\ legacy
    /\ IsSome(new_slot_payer)
    /\ pc = "failed"

\* C4: New on a slot that has a prior value fails the run with
\* UNKNOWN_INVARIANT_VIOLATION_ERROR.
C4_PresentNewFails ==
    (Converted({"New"}) /\ Present) =>
        /\ pc = "failed"
        /\ last.status = "UNKNOWN_INVARIANT_VIOLATION_ERROR"
        /\ last.op = None
        /\ result = Failure("UNKNOWN_INVARIANT_VIOLATION_ERROR")

\* a New of an existing module
C4_Witness ==
    /\ Converted({"New"}) /\ Present
    /\ last.kind = "module"
    /\ pc = "failed"

\* C5: Modify or Delete of a slot with a prior value yields a Modification
\* or Deletion that carries the prior value's metadata, or none when the prior
\* value has none, whatever the payer and the current time are.
C5_MetadataInherited ==
    (Converted({"Modify", "Delete"}) /\ Present) =>
        LET prior == Unwrap(last.existing.value)
            op == Unwrap(last.op)
        IN  /\ last.status = "EXECUTED"
            /\ op.metadata = prior.metadata
            /\ Unwrap(last.move_op).op = "Modify" =>
                /\ op.data = Unwrap(last.move_op).data
                /\ op.kind = IF IsSome(prior.metadata)
                             THEN "ModificationWithMetadata" ELSE "Modification"
            /\ Unwrap(last.move_op).op = "Delete" =>
                op.kind = IF IsSome(prior.metadata)
                          THEN "DeletionWithMetadata" ELSE "Deletion"

\* a slot with metadata modified by a session without payer
C5_Witness ==
    /\ Converted({"Modify"}) /\ Present
    /\ IsSome(Unwrap(last.existing.value).metadata)
    /\ ~IsSome(new_slot_payer)
    /\ Unwrap(last.op).metadata = Some(OldMetadata)

\* C6: a slot created by the run carries metadata exactly when the session
\* has a payer and a current time was resolved; the metadata is then (payer,
\* 0, current time), the same for every creation of the run; without it the
\* creation still succeeds.
C6_NewSlotMetadata ==
    /\ (Converted({"New"}) /\ Absent) =>
        /\ last.status = "EXECUTED"
        /\ IsSome(Unwrap(last.op).metadata) <=> (IsSome(new_slot_payer) /\ IsSome(current_time))
        /\ Unwrap(last.op).metadata = ExpectedMetadata
    /\ \A i \in 1..Len(write_set_mut) :
        LET op == write_set_mut[i].op
        IN  /\ op.kind = "CreationWithMetadata" =>
                /\ IsSome(new_slot_payer) /\ IsSome(current_time)
                /\ op.metadata = ExpectedMetadata
            /\ op.kind = "Creation" =>
                /\ ~(IsSome(new_slot_payer) /\ IsSome(current_time))
                /\ op.metadata = None

\* a payer but no current time: the run ends well, its creation has no metadata
C6_Witness ==
    /\ pc = "done"
    /\ Converted({"New"}) /\ Absent
    /\ IsSome(new_slot_payer)
    /\ ~IsSome(current_time)
    /\ Unwrap(last.op).kind = "Creation"

\* two creations of one run with the same metadata
C6_WitnessShared ==
    /\ pc = "done"
    /\ Len(write_set_mut) = 2
    /\ \A i \in 1..2 : write_set_mut[i].op.kind = "CreationWithMetadata"
    /\ write_set_mut[1].op.metadata = write_set_mut[2].op.metadata

\* C7 as stated: after a successful run no storage key is both in the
\* unmaterialized deltas and in the write-set.
C7_DeltasAndWritesDisjoint ==
    pc = "done" =>
        LET ext == Unwrap(result.change_set_ext)
        IN  DOMAIN ext.delta_change_set \cap WriteSetKeys(ext.write_set) = {}

GroupKey == ResourceGroupKey(Owner, GroupTag)
Creations == {"Creation", "CreationWithMetadata"}
Modifications == {"Modification", "ModificationWithMetadata"}
Deletions == {"Deletion", "DeletionWithMetadata"}

\* the member ops of the session for the group
SessionMemberOps == MemberOps(change_set.resources, Owner, GroupTag)

\* the container the group must hold after the session: the prior one
\* without the deleted members, with the created ones, the modified ones
\* carrying their new bytes and the others their prior bytes
ExpectedContainer(prior, ops) ==
    [t \in (DOMAIN prior \ {m \in DOMAIN ops : ops[m].op = "Delete"})
             \cup {m \in DOMAIN ops : ops[m].op # "Delete"}
        |-> IF t \in DOMAIN ops THEN ops[t].data ELSE prior[t]]

PriorContainer ==
    IF IsSome(storage[GroupKey]) THEN Unwrap(from_bytes(Unwrap(storage[GroupKey]).data))
    ELSE EmptyContainer

\* C8: over sessions committed in order the group slot is in storage exactly
\* when the group has a member: a stored container is never empty, a session
\* that finds no slot writes a Creation holding just the members it created,
\* and a session that leaves no member writes a Deletion, after which the
\* slot is gone.
C8_GroupSlotLifecycle ==
    /\ IsSome(storage[GroupKey]) =>
        /\ IsSome(from_bytes(Unwrap(storage[GroupKey]).data))
        /\ DOMAIN Unwrap(from_bytes(Unwrap(storage[GroupKey]).data)) # {}
    /\ (pc = "done" /\ DOMAIN SessionMemberOps # {}) =>
        LET written == WriteSetGet(Unwrap(result.change_set_ext).write_set, GroupKey)
            expected == ExpectedContainer(PriorContainer, SessionMemberOps)
        IN  /\ IsSome(written)
            /\ ~IsSome(storage[GroupKey]) =>
                /\ Unwrap(written).kind \in Creations
                /\ \A t \in DOMAIN SessionMemberOps : SessionMemberOps[t].op = "New"
                /\ from_bytes(Unwrap(written).data)
                     = Some([t \in DOMAIN SessionMemberOps |-> SessionMemberOps[t].data])
            /\ IsSome(storage[GroupKey]) =>
                /\ Unwrap(written).kind \in Deletions \cup Modifications
                /\ Unwrap(written).kind \in Deletions <=> DOMAIN expected = {}
    /\ (pc = "committed" /\ DOMAIN SessionMemberOps # {}) =>
        LET written == WriteSetGet(Unwrap(result.change_set_ext).write_set, GroupKey)
        IN  IsSome(storage[GroupKey]) <=> Unwrap(written).kind \notin Deletions

\* on a ledger that started empty, a session removed the last member of the
\* group an earlier session had created
C8_Witness ==
    /\ pc = "committed"
    /\ ~IsSome(storage[ResourceKey(CORE_CODE_ADDRESS, TimestampTag)])
    /\ last.kind = "group"
    /\ Unwrap(last.op).kind = "Deletion"
    /\ Unwrap(last.move_op) = Delete
    /\ ~IsSome(storage[GroupKey])

\* C9 as stated: a session that changes members of an existing group always
\* writes a Modification holding the prior container with its ops applied.
C9_AlwaysModification ==
    (pc = "done" /\ DOMAIN SessionMemberOps # {} /\ IsSome(storage[GroupKey])) =>
        LET written == Unwrap(WriteSetGet(Unwrap(result.change_set_ext).write_set, GroupKey))
        IN  /\ written.kind \in Modifications
            /\ from_bytes(written.data)
                 = Some(ExpectedContainer(PriorContainer, SessionMemberOps))

\* C9 amended: a session that changes members of an existing group and leaves
\* at least one member writes a Modification holding the prior container with
\* its ops applied (untouched members keep their bytes); when it leaves no
\* member it writes a Deletion.
C9_ModificationUnlessEmptied ==
    (pc = "done" /\ DOMAIN SessionMemberOps # {} /\ IsSome(storage[GroupKey])) =>
        LET written == Unwrap(WriteSetGet(Unwrap(result.change_set_ext).write_set, GroupKey))
            expected == ExpectedContainer(PriorContainer, SessionMemberOps)
        IN  IF DOMAIN expected = {}
            THEN written.kind \in Deletions
            ELSE /\ written.kind \in Modifications
                 /\ from_bytes(written.data) = Some(expected)

\* the group holds R2 and R3, the session modifies R2 only
C9_Witness ==
    /\ pc = "done"
    /\ storage = StorageWithMetadata
    /\ DOMAIN SessionMemberOps = {"R2"}
    /\ SessionMemberOps["R2"] = Modify(<<2>>)
    /\ LET written == Unwrap(WriteSetGet(Unwrap(result.change_set_ext).write_set, GroupKey))
       IN  /\ written.kind = "ModificationWithMetadata"
           /\ from_bytes(written.data) = Some(("R2" :> <<2>>) @@ ("R3" :> <<2>>))

\* C10: an aggregator Write to a key whose op in the write-set is a
\* Modification or a Deletion fails the run with
\* UNKNOWN_INVARIANT_VIOLATION_ERROR, and the run returns no change set.
C10_WriteOverModificationFails ==
    (/\ last.kind = "aggregator_write"
     /\ IsSome(last.direct_write)
     /\ Unwrap(last.direct_write).kind \in Modifications \cup Deletions) =>
        /\ pc = "failed"
        /\ result = Failure("UNKNOWN_INVARIANT_VIOLATION_ERROR")
        /\ WriteSetGet(write_set_mut, last.state_key) = last.direct_write

\* a Write over the Deletion a table change put in the write-set
C10_Witness ==
    /\ pc = "failed"
    /\ last.kind = "aggregator_write"
    /\ last.direct_write = Some(WriteOp("DeletionWithMetadata", <<>>, Some(OldMetadata)))

\* C11: the events of a returned change set are the events the session
\* emitted, as many and in the order of emission: the i-th translated event
\* carries the sequence number, type tag and payload of the i-th emitted
\* event, under the event key its identifier decodes to.
C11_EventsInOrder ==
    pc = "done" =>
        LET translated == Unwrap(result.change_set_ext).events
        IN  /\ Len(translated) = Len(events)
            /\ \A i \in 1..Len(events) :
                 /\ translated[i].seq_num = events[i].seq_num
                 /\ translated[i].ty_tag = events[i].ty_tag
                 /\ translated[i].blob = events[i].blob
                 /\ Some(translated[i].key) = event_key_from_bytes(events[i].guid)

\* a session that emitted two events and returned its change set
C11_Witness ==
    /\ pc = "done"
    /\ Len(events) = 2
    /\ Unwrap(result.change_set_ext).events[1].seq_num = 0
    /\ Unwrap(result.change_set_ext).events[2].seq_num = 1

\* the storage keys the effects of the session ask a write op for
EffectKeys ==
    {ResourceKey(s[1], s[2]) : s \in DOMAIN change_set.resources \ MemberSlots}
        \cup {ModuleKey(s[1], s[2]) : s \in DOMAIN change_set.modules}
        \cup (IF DOMAIN SessionMemberOps = {} THEN {} ELSE {GroupKey})
        \cup {TableItemKey(s[1], s[2]) : s \in DOMAIN table_change_set}
        \cup {TableItemKey(s[1], s[2]) :
                s \in {a \in DOMAIN aggregator_change_set :
                         aggregator_change_set[a].kind # "Merge"}}

ErrorCodes == {"UNKNOWN_INVARIANT_VIOLATION_ERROR", "STORAGE_ERROR",
               "DATA_FORMAT_ERROR", "EVENT_KEY_MISMATCH"}

\* the outcome a run has at each of its positions
C12_Outcome ==
    /\ pc \in {"exec", "convert", "events"} => result = NoResult
    /\ pc = "failed" =>
         /\ result.status \in ErrorCodes
         /\ result.change_set_ext = None
    /\ pc \in {"done", "committed"} =>
         /\ result.status = "EXECUTED"
         /\ IsSome(result.change_set_ext)
         /\ LET out == Unwrap(result.change_set_ext)
            IN  /\ out.write_set = write_set_mut
                /\ UniqueKeys(out.write_set)
                /\ WriteSetKeys(out.write_set) = EffectKeys
                /\ out.delta_change_set = delta_change_set
                /\ Len(out.events) = Len(events)

\* C12: every run of finish_with_current_timestamp ends, and it ends either
\* in success, with the frozen write-set holding one op for every key the
\* effects touch, the delta set and the translated events, or in failure
\* with a status code and nothing else: whatever stage failed, no write-set,
\* delta set or event list is returned.
C12_SuccessOrTypedFailure ==
    /\ []C12_Outcome
    /\ (pc \in {"convert", "events"}) ~> (pc \in {"done", "failed"})

\* a run that fails at the event translation, after the write-set was built
C12_Witness ==
    /\ pc = "failed"
    /\ result = [status |-> "EVENT_KEY_MISMATCH", change_set_ext |-> None]
    /\ Len(write_set_mut) > 0
    /\ todo = <<>>

ItemKey(e) ==
    IF e.kind = "resource" THEN ResourceKey(e.slot[1], e.slot[2])
    ELSE IF e.kind = "module" THEN ModuleKey(e.slot[1], e.slot[2])
    ELSE ResourceGroupKey(e.slot[1], e.slot[2])

ItemOp(e) ==
    IF e.kind = "resource" THEN change_set_filtered.resources[e.slot]
    ELSE IF e.kind = "module" THEN change_set_filtered.modules[e.slot]
    ELSE resource_group_change_set[e.slot]

ItemFlag(e) == e.kind = "resource" /\ legacy

\* the resources, modules and groups the run has converted before the
\* latest step, with the key, the op and the flag each was converted with
EarlierItems ==
    {e \in {ConversionOrder[i] : i \in 1..Len(ConversionOrder)} :
        /\ e.kind \in {"resource", "module", "group"}
        /\ Visited(change_set_filtered, resource_group_change_set, e)
        /\ \A i \in 1..Len(todo) : todo[i] # e
        /\ ItemKey(e) # last.state_key}

\* the latest conversion succeeded and an earlier one saw the same inputs
SameInputs(e) ==
    /\ storage[ItemKey(e)] = last.existing.value
    /\ ItemOp(e) = Unwrap(last.move_op)

Converting ==
    /\ pc \notin {"exec", "committed"}
    /\ last.status = "EXECUTED"
    /\ IsSome(last.move_op)

Collisions ==
    {s \in DOMAIN table_change_set \cap DOMAIN aggregator_change_set :
        aggregator_change_set[s].kind # "Merge"}

TimestampSlot == <<CORE_CODE_ADDRESS, TimestampTag>>

\* the timestamp the ledger holds, if it holds one
OnChainTimestamp ==
    LET stored == storage[ResourceKey(CORE_CODE_ADDRESS, TimestampTag)]
    IN  IF IsSome(stored) /\ Len(Unwrap(stored).data) = 8
        THEN Some(LeValue(Unwrap(stored).data))
        ELSE None

\* C15: once the merge is through, the current time of the run is the value
\* the session wrote (New or Modify) to the timestamp resource at the system
\* address when the bytes parse, None when they do not parse or the resource
\* was deleted, whatever the ledger holds, and the timestamp of the ledger
\* when the session did not touch that resource; an unusable update does not
\* fail the run, only a group merge makes the merge step fail.
C15_EffectiveTimestamp ==
    /\ pc \in {"convert", "events", "done"} =>
         IF TimestampSlot \in DOMAIN change_set.resources
         THEN LET op == change_set.resources[TimestampSlot]
              IN  IF op.op \in {"New", "Modify"} /\ Len(op.data) = 8
                  THEN current_time = Some(LeValue(op.data))
                  ELSE current_time = None
         ELSE current_time = OnChainTimestamp
    /\ (pc = "failed" /\ last = NoStep
            /\ result.status = "UNKNOWN_INVARIANT_VIOLATION_ERROR") =>
         DOMAIN SessionMemberOps # {}

\* the session overwrote the timestamp with bytes that do not parse, on a
\* ledger that holds a timestamp: the run succeeds without a current time
C15_Witness ==
    /\ pc = "done"
    /\ OnChainTimestamp = Some(5)
    /\ TimestampSlot \in DOMAIN change_set.resources
    /\ change_set.resources[TimestampSlot] = Modify(<<1>>)
    /\ current_time = None

\* the containers over the member tags
Containers == UNION {[S -> Payloads] : S \in SUBSET MemberTags}

\* the group-level op the rule asks for: its kind, and bytes that decode to
\* the container
IsGroupOpFor(op, container, create) ==
    IF DOMAIN container = {} THEN op = Delete
    ELSE /\ op.op = (IF create THEN "New" ELSE "Modify")
         /\ from_bytes(op.data) = Some(container)

\* C16: the group-level op of a merged group is Delete when the container
\* left by the member ops is empty, New of the serialized container when it
\* is not empty and the slot did not exist, Modify of it otherwise; the
\* choice made for any container puts the emptiness test first, so an empty
\* container of a slot that did not exist gives Delete too.
C16_GroupLevelOp ==
    /\ (pc \in {"convert", "events", "done"}
            /\ <<Owner, GroupTag>> \in DOMAIN resource_group_change_set) =>
         IsGroupOpFor(resource_group_change_set[<<Owner, GroupTag>>],
                      ExpectedContainer(PriorContainer, SessionMemberOps),
                      ~IsSome(storage[GroupKey]))
    /\ \A c \in Containers, create \in BOOLEAN :
         IsGroupOpFor(GroupOp(c, create), c, create)

\* the session deleted the only member of an existing group: the merge
\* gives Delete for the group
C16_Witness ==
    /\ pc = "done"
    /\ storage = StorageWithoutMetadata
    /\ DOMAIN SessionMemberOps = {"R2"}
    /\ SessionMemberOps["R2"] = Delete
    /\ resource_group_change_set[<<Owner, GroupTag>>] = Delete

\* the group bytes of the ledger are readable and decode
GroupReadable ==
    /\ GroupKey \notin faulty
    /\ IsSome(storage[GroupKey]) => IsSome(from_bytes(Unwrap(storage[GroupKey]).data))

\* the member ops of the session that do not fit the container: each tag has
\* one op, so the container an op meets holds the tag iff the ledger does
MisfitMembers ==
    {t \in DOMAIN SessionMemberOps :
        IF SessionMemberOps[t].op = "New" THEN t \in DOMAIN PriorContainer
        ELSE t \notin DOMAIN PriorContainer}

\* C17: a member Delete or Modify of a tag the container does not hold, and
\* a member New of a tag it holds, fail the run in the merge, before any
\* slot is converted, with UNKNOWN_INVARIANT_VIOLATION_ERROR; so does any
\* member Delete or Modify when the group slot does not exist.
C17_MisfitMemberAborts ==
    (pc \notin {"exec", "committed"} /\ GroupReadable) =>
        /\ MisfitMembers # {} =>
             /\ pc = "failed"
             /\ result = Failure("UNKNOWN_INVARIANT_VIOLATION_ERROR")
             /\ last = NoStep
             /\ write_set_mut = <<>>
        /\ (~IsSome(storage[GroupKey])
                /\ \E t \in DOMAIN SessionMemberOps : SessionMemberOps[t].op # "New") =>
             /\ pc = "failed"
             /\ result = Failure("UNKNOWN_INVARIANT_VIOLATION_ERROR")

\* the session created a member the group already holds, and the run failed
C17_Witness ==
    /\ pc = "failed"
    /\ storage = StorageWithMetadata
    /\ DOMAIN SessionMemberOps = {"R2"}
    /\ SessionMemberOps["R2"] = New(<<2>>)
    /\ result = [status |-> "UNKNOWN_INVARIANT_VIOLATION_ERROR", change_set_ext |-> None]

\* the merge is through: the flat resources are the ungrouped resource ops
\* of the session, unchanged, the modules are its module ops, unchanged, and
\* the member ops are in neither but folded into one op for their group
Partitioned ==
    pc \in {"convert", "events", "done"} =>
        /\ DOMAIN change_set_filtered.resources = DOMAIN change_set.resources \ MemberSlots
        /\ \A s \in DOMAIN change_set_filtered.resources :
             change_set_filtered.resources[s] = change_set.resources[s]
        /\ change_set_filtered.modules = change_set.modules
        /\ DOMAIN resource_group_change_set =
             (IF DOMAIN SessionMemberOps = {} THEN {} ELSE {<<Owner, GroupTag>>})
        /\ \A t \in MemberTags : ResourceKey(Owner, t) \notin WriteSetKeys(write_set_mut)

\* the session created R1 and the group member R2 and nothing else, for an
\* owner without data, and the run succeeded
CreatedR1AndR2 ==
    /\ pc = "done"
    /\ ~IsSome(storage[ResourceKey(Owner, "R1")])
    /\ ~IsSome(storage[GroupKey])
    /\ DOMAIN change_set.resources = {<<Owner, "R1">>, <<Owner, "R2">>}
    /\ DOMAIN change_set.modules = {}
    /\ DOMAIN table_change_set = {}
    /\ DOMAIN aggregator_change_set = {}
    /\ change_set.resources[<<Owner, "R1">>].op = "New"
    /\ change_set.resources[<<Owner, "R2">>].op = "New"

\* the write-set holds an op of one of the kinds with the bytes of R1 at the
\* slot of R1, a Creation of a container with R2 alone at the group slot,
\* and nothing else
WritesR1AndGroup(kinds) ==
    LET ws == Unwrap(result.change_set_ext).write_set
        r1 == Unwrap(WriteSetGet(ws, ResourceKey(Owner, "R1")))
        group == Unwrap(WriteSetGet(ws, GroupKey))
    IN  /\ Len(ws) = 2
        /\ WriteSetKeys(ws) = {ResourceKey(Owner, "R1"), GroupKey}
        /\ r1.kind \in kinds
        /\ r1.data = change_set.resources[<<Owner, "R1">>].data
        /\ group.kind \in Creations
        /\ from_bytes(group.data) = Some("R2" :> change_set.resources[<<Owner, "R2">>].data)

\* C18 as stated: the merge partitions the effects, and creating R1 and R2
\* for an owner without data gives a Creation at R1 and a Creation at the
\* group holding R2 alone.
C18_PartitionAndCreations ==
    /\ Partitioned
    /\ CreatedR1AndR2 => WritesR1AndGroup(Creations)

\* C18: the merge partitions the effects, and creating R1 and R2 for an
\* owner without data gives a Creation at the group holding R2 alone and, at
\* R1, a Creation, or a Modification when the legacy flag is passed and no
\* new-slot metadata is available.
C18_PartitionAndNewSlots ==
    /\ Partitioned
    /\ CreatedR1AndR2 =>
         WritesR1AndGroup(IF legacy /\ ExpectedMetadata = None
                          THEN {"Modification"} ELSE Creations)

\* R1 and R2 created on the empty ledger without the legacy flag
C18_Witness ==
    /\ CreatedR1AndR2
    /\ ~legacy
    /\ WritesR1AndGroup({"Creation"})

\* the next change convert_change_set integrates is an aggregator Merge
MergeIsNext ==
    /\ Visiting("aggregator")
    /\ aggregator_change_set[Head(todo).slot].kind = "Merge"

\* C19: the step that integrates an aggregator Merge records the delta at
\* the table item of the aggregator and does nothing else: the write-set and
\* the other deltas are as before and the run goes on without a failure,
\* whatever the ledger holds at the key (even when its read would fail) and
\* whatever op the write-set holds there.
C19_MergeOnlyRecordsDelta ==
    [][MergeIsNext =>
        LET id == Head(todo).slot
            state_key == TableItemKey(id[1], id[2])
        IN  /\ write_set_mut' = write_set_mut
            /\ pc' = "convert"
            /\ result' = NoResult
            /\ DOMAIN delta_change_set' = DOMAIN delta_change_set \cup {state_key}
            /\ delta_change_set'[state_key] = aggregator_change_set[id].value
            /\ \A k \in DOMAIN delta_change_set \ {state_key} :
                 delta_change_set'[k] = delta_change_set[k]
            /\ todo' = Tail(todo)]_vars

\* a Merge on a key whose read fails, integrated by a run that succeeded
C19_Witness ==
    /\ pc = "done"
    /\ last.kind = "aggregator_merge"
    /\ last.state_key \in faulty
    /\ last.state_key \in DOMAIN delta_change_set

\* the latest step integrated an aggregator Write at a key the write-set
\* held no op for
WriteOnUnwrittenKey ==
    /\ last.kind = "aggregator_write"
    /\ ~IsSome(last.direct_write)

\* the value the session wrote to the aggregator of the latest step
WrittenValue ==
    aggregator_change_set[<<last.state_key[2], last.state_key[3]>>].value

\* C20 as stated: an aggregator Write at a key the write-set holds no op for
\* always puts a Creation of the serialized value at the key.
C20_WriteAlwaysCreates ==
    WriteOnUnwrittenKey =>
        /\ last.status = "EXECUTED"
        /\ LET op == WriteSetGet(write_set_mut, last.state_key)
           IN  /\ IsSome(op)
               /\ Unwrap(op).kind \in Creations
               /\ Unwrap(op).data = serialize(WrittenValue)

\* C20: an aggregator Write at a key the write-set holds no op for is
\* converted as New of the serialized value: when the ledger holds no value
\* at the key the write-set gets a Creation of it, with the metadata of new
\* slots; when the ledger holds a value the run fails with
\* UNKNOWN_INVARIANT_VIOLATION_ERROR, when the read fails with STORAGE_ERROR,
\* and the write-set gets no op for the key.
C20_WriteCreatesOnAbsentSlot ==
    WriteOnUnwrittenKey =>
        /\ last.move_op = Some(New(serialize(WrittenValue)))
        /\ Absent =>
             /\ last.status = "EXECUTED"
             /\ WriteSetGet(write_set_mut, last.state_key) =
                  Some(WriteOp(IF IsSome(ExpectedMetadata) THEN "CreationWithMetadata"
                               ELSE "Creation",
                               serialize(WrittenValue), ExpectedMetadata))
        /\ Present =>
             /\ pc = "failed"
             /\ result = Failure("UNKNOWN_INVARIANT_VIOLATION_ERROR")
             /\ WriteSetGet(write_set_mut, last.state_key) = None
        /\ ~last.existing.ok =>
             /\ pc = "failed"
             /\ result = Failure("STORAGE_ERROR")
             /\ WriteSetGet(write_set_mut, last.state_key) = None

\* a Write to an aggregator the ledger does not hold, integrated by a run
\* that succeeded
C20_Witness ==
    /\ pc = "done"
    /\ WriteOnUnwrittenKey
    /\ Absent
    /\ last.state_key = TableItemKey(Handle, "k2")
    /\ Unwrap(WriteSetGet(Unwrap(result.change_set_ext).write_set,
                          last.state_key)).data = serialize(42)

\* the latest step integrated an aggregator Write at a key for which the
\* write-set held a Creation
WriteOverCreation ==
    /\ last.kind = "aggregator_write"
    /\ IsSome(last.direct_write)
    /\ Unwrap(last.direct_write).kind \in Creations

\* C21: an aggregator Write at a key whose op in the write-set is a Creation,
\* with or without metadata, succeeds and replaces that op: the write-set
\* holds one op for the key, a Creation of the serialized value, and the run
\* can only fail afterwards, at the event translation.
C21_WriteReplacesCreation ==
    WriteOverCreation =>
        /\ last.status = "EXECUTED"
        /\ pc = "failed" => result = Failure("EVENT_KEY_MISMATCH")
        /\ Cardinality({i \in 1..Len(write_set_mut) :
                          write_set_mut[i].key = last.state_key}) = 1
        /\ LET op == Unwrap(WriteSetGet(write_set_mut, last.state_key))
           IN  /\ op.kind \in Creations
               /\ op.data = serialize(WrittenValue)

\* a table entry the session created and an aggregator Write on its key, in
\* a run that succeeded
C21_Witness ==
    /\ pc = "done"
    /\ WriteOverCreation
    /\ table_change_set[<<Handle, "k1">>] = New(<<1>>)
    /\ Unwrap(WriteSetGet(Unwrap(result.change_set_ext).write_set,
                          TableItemKey(Handle, "k1"))).data = serialize(42)

\* C22: an aggregator Delete is converted as a Delete of its table item: the
\* run fails with UNKNOWN_INVARIANT_VIOLATION_ERROR when the ledger holds no
\* value at the key, and otherwise the write-set gets a Deletion with the
\* metadata of the stored value, whatever op, if any, the write-set held for
\* the key before.
C22_AggregatorDelete ==
    last.kind = "aggregator_delete" =>
        /\ last.move_op = Some(Delete)
        /\ Absent =>
             /\ pc = "failed"
             /\ result = Failure("UNKNOWN_INVARIANT_VIOLATION_ERROR")
             /\ WriteSetGet(write_set_mut, last.state_key) = last.direct_write
        /\ Present =>
             LET prior == Unwrap(last.existing.value)
             IN  /\ last.status = "EXECUTED"
                 /\ WriteSetGet(write_set_mut, last.state_key) =
                      Some(WriteOp(IF IsSome(prior.metadata) THEN "DeletionWithMetadata"
                                   ELSE "Deletion", <<>>, prior.metadata))

\* an aggregator Delete on a key the write-set holds no op for, on a ledger
\* that stores metadata, in a run that succeeded
C22_Witness ==
    /\ pc = "done"
    /\ last.kind = "aggregator_delete"
    /\ last.direct_write = None
    /\ WriteSetGet(Unwrap(result.change_set_ext).write_set, last.state_key) =
         Some(WriteOp("DeletionWithMetadata", <<>>, Some(OldMetadata)))

\* the session emitted an event whose identifier is not the 40 bytes of an
\* event key
HasUndecodableEvent ==
    \E i \in 1..Len(events) : Len(events[i].guid) # 8 + 32

\* C23: a run whose events include one with an identifier that is not an
\* event key never returns a change set, and when it reaches the event
\* translation it fails there with EVENT_KEY_MISMATCH and returns nothing;
\* the event is not skipped.
C23_UndecodableEventFails ==
    /\ [](HasUndecodableEvent =>
            /\ pc \notin {"done", "committed"}
            /\ result.change_set_ext = None)
    /\ [][(pc = "events" /\ HasUndecodableEvent) =>
            /\ pc' = "failed"
            /\ result' = [status |-> "EVENT_KEY_MISMATCH", change_set_ext |-> None]]_vars

\* a run with a well-formed and a malformed event that failed at the event
\* translation
C23_Witness ==
    /\ pc = "failed"
    /\ result.status = "EVENT_KEY_MISMATCH"
    /\ Len(events) = 2
    /\ events[1].guid = GoodGuid
    /\ events[2].guid = BadGuid

\* C24: while the ledger is the one the run started from, the group-level op
\* of a successful merge is New exactly when the ledger does not hold the
\* group slot, and Modify or Delete when it does; so the conversion of a
\* group slot never ends with UNKNOWN_INVARIANT_VIOLATION_ERROR.
C24_GroupOpAgreesWithLedger ==
    /\ (pc \notin {"exec", "committed"}
            /\ <<Owner, GroupTag>> \in DOMAIN resource_group_change_set) =>
         LET op == resource_group_change_set[<<Owner, GroupTag>>]
         IN  IF IsSome(storage[GroupKey]) THEN op.op \in {"Modify", "Delete"}
             ELSE op.op = "New"
    /\ last.kind = "group" =>
         /\ last.state_key = GroupKey
         /\ last.status # "UNKNOWN_INVARIANT_VIOLATION_ERROR"

\* the session created a member of a group the ledger does not hold, and the
\* group slot was converted
C24_Witness ==
    /\ pc = "done"
    /\ ~IsSome(storage[GroupKey])
    /\ last.kind = "group"
    /\ <<Owner, GroupTag>> \in DOMAIN resource_group_change_set
    /\ resource_group_change_set[<<Owner, GroupTag>>].op = "New"
    /\ Unwrap(last.op).kind \in Creations

\* C25: in the write-set a successful run returns, a Creation, with or
\* without metadata, is at a key the ledger holds no value for, a Deletion,
\* with or without metadata, and a ModificationWithMetadata are at a key the
\* ledger holds a value for, and a Modification or Deletion with metadata
\* carries the metadata stored with that value.
C25_WriteSetAgreesWithLedger ==
    pc = "done" =>
        LET ws == Unwrap(result.change_set_ext).write_set
        IN  \A i \in 1..Len(ws) :
                LET op == ws[i].op
                    prior == storage[ws[i].key]
                IN  /\ op.kind \in Creations => ~IsSome(prior)
                    /\ op.kind \in Deletions \cup {"ModificationWithMetadata"} =>
                         IsSome(prior)
                    /\ op.kind \in {"ModificationWithMetadata", "DeletionWithMetadata"} =>
                         op.metadata = Unwrap(prior).metadata

\* a successful run on the ledger with metadata that modified a resource and
\* created the table entry the ledger does not hold
C25_Witness ==
    /\ pc = "done"
    /\ storage = StorageWithMetadata
    /\ LET ws == Unwrap(result.change_set_ext).write_set
       IN  /\ Len(ws) = 2
           /\ ws[1].op.kind = "ModificationWithMetadata"
           /\ ws[2].op.kind \in Creations

\* a call was made, and it has returned
Called == native_call.fn # "none"
Returned == Called /\ native_call.pos = "returned"

Traced(step) == \E i \in 1..Len(native_call.trace) : native_call.trace[i] = step

\* the charges that trace position i comes after
ChargesBefore(i) ==
    Cardinality({j \in 1..(i - 1) : native_call.trace[j] = "charge"})

SupportedBits == native_call.num_bits \in {8, 16, 32, 64}
Decodable == IsSome(RangeProof_from_bytes(native_call.proof_bytes))
ValidProof ==
    /\ Decodable
    /\ verify_single(Unwrap(RangeProof_from_bytes(native_call.proof_bytes)),
                     native_call.comm_bytes, native_call.num_bits, native_call.dst)

\* the gas of the two charges ahead of the deserialization, and of all three
DeserializeGas ==
    native_call.gas_params.base
        + native_call.gas_params.per_byte_rangeproof_deserialize
            * Len(native_call.proof_bytes)
VerifyGas ==
    DeserializeGas
        + native_call.gas_params.per_bit_rangeproof_verify * native_call.num_bits

\* a width that is not 8, 16, 32 or 64 aborts with NFE_RANGE_NOT_SUPPORTED,
\* with no gas charged and the proof neither deserialized nor verified
UnsupportedBitsAbort ==
    (Called /\ ~SupportedBits) =>
        /\ Returned => native_call.outcome =
             [kind |-> "abort", abort_code |-> 65539, value |-> FALSE]
        /\ native_call.gas_used = 0
        /\ ~Traced("charge") /\ ~Traced("from_bytes") /\ ~Traced("verify_single")

\* the deserialization comes after the charge of the base gas and of the gas
\* per byte, and the verification after the charge per bit
ChargedAhead ==
    \A i \in 1..Len(native_call.trace) :
        /\ native_call.trace[i] = "from_bytes" =>
             /\ ChargesBefore(i) = 2
             /\ native_call.gas_used >= DeserializeGas
        /\ native_call.trace[i] = "verify_single" =>
             /\ ChargesBefore(i) = 3
             /\ Traced("from_bytes")
             /\ native_call.gas_used = VerifyGas

\* C26 as stated: an unsupported width aborts before any gas is charged;
\* for a supported width the gas is charged ahead of the deserialization,
\* a proof that does not decode aborts with NFE_DESERIALIZE_RANGE_PROOF and a
\* proof that decodes but is not valid returns false.
C26_AbortCodesAsStated ==
    /\ UnsupportedBitsAbort
    /\ ChargedAhead
    /\ (Returned /\ SupportedBits /\ ~Decodable) =>
         native_call.outcome = [kind |-> "abort", abort_code |-> 65537, value |-> FALSE]
    /\ (Returned /\ SupportedBits /\ Decodable /\ ~ValidProof) =>
         native_call.outcome = [kind |-> "return", abort_code |-> 0, value |-> FALSE]

\* C26: an unsupported width aborts with NFE_RANGE_NOT_SUPPORTED before any
\* gas is charged and before the proof is deserialized or verified; for a
\* supported width the base gas and the gas per byte are charged ahead of
\* the deserialization; when the balance covers them a proof that does not
\* decode aborts with NFE_DESERIALIZE_RANGE_PROOF, and when it also covers
\* the gas per bit a proof that decodes returns whether it is valid, so
\* false for an invalid one; a charge the balance does not cover ends the
\* call with the out-of-gas error, ahead of the step it pays for.
C26_AbortCodesGasPermitting ==
    /\ UnsupportedBitsAbort
    /\ ChargedAhead
    /\ (Returned /\ SupportedBits /\ DeserializeGas > native_call.gas_balance) =>
         /\ native_call.outcome.kind = "out_of_gas"
         /\ ~Traced("from_bytes")
    /\ (Returned /\ SupportedBits /\ ~Decodable
            /\ DeserializeGas <= native_call.gas_balance) =>
         native_call.outcome = [kind |-> "abort", abort_code |-> 65537, value |-> FALSE]
    /\ (Returned /\ SupportedBits /\ Decodable
            /\ DeserializeGas <= native_call.gas_balance) =>
         IF VerifyGas <= native_call.gas_balance
         THEN native_call.outcome =
                [kind |-> "return", abort_code |-> 0, value |-> ValidProof]
         ELSE /\ native_call.outcome.kind = "out_of_gas"
              /\ Traced("from_bytes")
              /\ ~Traced("verify_single")

\* the native with the custom commitment key, a width of 8 bits and a proof
\* that decodes but is for another commitment: it returns false
C26_Witness ==
    /\ Returned
    /\ native_call.fn = "verify_range_proof_custom_ck_internal"
    /\ native_call.num_bits = 8
    /\ Decodable
    /\ ~ValidProof
    /\ native_call.outcome = [kind |-> "return", abort_code |-> 0, value |-> FALSE]
    /\ native_call.gas_used = VerifyGas

====
